---------------------------- MODULE Spec2Model ----------------------------
(***************************************************************************)
(* A model of the Black Box engine: the board (src/game/gameboard.py),     *)
(* the particles (src/game/atom.py), the ray simulator (src/game/ray.py),  *)
(* the player (src/game/player.py) and the session loop (src/gameloop.py,  *)
(* src/ui/gamescreen.py).                                                  *)
(*                                                                         *)
(* Python values are encoded as follows.  A position or a direction is a   *)
(* pair <<x, y>>.  None is the empty tuple, and the value True that        *)
(* _handle_multiple_reflections stores in exit_point is PyTrue.  A call    *)
(* that can raise returns a record whose field type names the exception.   *)
(***************************************************************************)
EXTENDS Integers, Sequences, FiniteSets, TLC

VARIABLES
    size,           \* GameBoard.size
    atoms,          \* GameBoard.atoms: the list of Atom objects, in list order
    grid,           \* GameBoard.grid: the <<i, j>> whose grid[i][j] is not None
    ray,            \* the Ray object last constructed (NoRay before the first)
    score,          \* Player.score
    fired_rays,     \* Player.fired_rays
    guessed_atoms,  \* Player.guessed_atoms
    game_state,     \* GameLoop.game_state
    initial_score,  \* history: the initial_score the Player was constructed with
    returned,       \* history: the number of fire_ray calls that returned a ray
    last_call,      \* history: how the last call of the player's API ended
    late_commands,  \* history: fire-ray and guess commands handled at score <= 0
    bo5,            \* GameLoop.bo5: the rounds won by Player 1 and by Player 2
    player1,        \* GameLoop.player1
    player2         \* GameLoop.player2

vars == <<size, atoms, grid, ray, score, fired_rays, guessed_atoms, game_state,
          initial_score, returned, last_call, late_commands, bo5, player1,
          player2>>

board_vars == <<size, atoms, grid>>
player_vars == <<score, fired_rays, guessed_atoms, initial_score, returned,
                 last_call, late_commands>>
mp_vars == <<bo5, player1, player2>>

----------------------------------------------------------------------------
(* Bounds of the model *)

\* SpecTrace and Spec: the atoms of a board lie on the cells whose
\* coordinates are at most MaxAtomCoord (rays enter from every side)
MaxAtomCoord == 2
\* the largest number of atoms on an easy (6 x 6) board
MaxAtoms == 2
\* the largest number of atoms on a medium (8 x 8) board
MaxAtomsMedium == 1
\* Spec: the largest number of atoms on the player's board, the largest
\* initial_score a Player is constructed with, and the longest fired_rays
MaxPlayAtoms == 1
MaxInitialScore == 2
MaxRays == 3
\* SpecGuess: the largest number of atoms on the board, and the longest
\* guessed_atoms
MaxGuessAtoms == 1
MaxGuesses == 3
\* SpecSession: the largest coordinate _place_atoms draws, and the most
\* events pygame.event.get() returns to one handle_input
MaxCoord == 2
MaxEvents == 2
\* SpecSession: the initial_score of the session's player, in place of
\* Player's default of 25 (play_game reads the score only as score <= 0)
SessionInitialScore == 3
\* SpecBoard: the longest list of atoms place_atom is called on
MaxBoardAtoms == 4
\* SpecPlayer: the highest score update_score is called at, and the most
\* rays and guesses the player's two lists hold together
MaxScore == 3
MaxHistory == 2
\* SpecMatch: the atoms of each board of a round, and the most rounds
\* finished before the last round is started
MaxMatchAtoms == 1
MaxRounds == 4
\* SpecPlacement: the most atoms the loop of _place_atoms is followed for
\* on the medium and hard boards
MaxPlacedLarge == 1
\* SpecReflection: the most calls of move, and of _handle_reflection, on a
\* ray before it is traced
MaxMoves == 2
MaxTurns == 1

----------------------------------------------------------------------------
(* Python values *)

None == <<>>
PyTrue == <<1>>

Abs(n) == IF n < 0 THEN -n ELSE n
Last(s) == s[Len(s)]

PyBool(b) == [type |-> "bool", value |-> b, corner |-> 0]
PyPair(b, c) == [type |-> "tuple", value |-> b, corner |-> c]
PyRaise(e) == [type |-> e, value |-> FALSE, corner |-> 0]

\* the four (dx, dy) that Ray.__init__ and change_direction accept
Directions == {<<0, 1>>, <<0, -1>>, <<1, 0>>, <<-1, 0>>}

----------------------------------------------------------------------------
(* src/game/atom.py *)

\* Atom.__init__, for coordinates it accepts.  Atom defines no __eq__ and
\* no __hash__, so "in", list.remove and set() tell Atom objects apart by
\* identity: id is the identity of the object, and two objects with the
\* same x and y and different id are different list and set members.
Atom(id, x, y) == [id |-> id, x |-> x, y |-> y]

\* Atom.__init__: TRUE when the constructor raises ValueError
Atom_raises(x, y) == x < 0 \/ y < 0

\* is_adjacent as Ray.check_reflection's docstring describes it: the pair
\* (adjacent, corner), the corner numbered as the comments of
\* reflection_rules number it.  The code's is_adjacent is the next
\* definition; C3 is decided against this one.
is_adjacent_corner(atom, x, y) ==
    IF x < 0 \/ y < 0
    THEN PyRaise("ValueError")
    ELSE PyPair(Abs(atom.x - x) = 1 /\ Abs(atom.y - y) = 1,
                IF atom.y < y
                THEN (IF atom.x < x THEN 1 ELSE 2)
                ELSE (IF atom.x < x THEN 3 ELSE 4))

\* Atom.is_adjacent returns a bool, not the (bool, corner) pair that
\* Ray.check_reflection documents
is_adjacent(atom, x, y) ==
    IF x < 0 \/ y < 0
    THEN PyRaise("ValueError")
    ELSE PyBool(Abs(atom.x - x) = 1 /\ Abs(atom.y - y) = 1)

is_hit(atom, x, y) ==
    IF x < 0 \/ y < 0
    THEN PyRaise("ValueError")
    ELSE PyBool(atom.x = x /\ atom.y = y)

----------------------------------------------------------------------------
(* src/game/gameboard.py *)

\* GameBoard.__init__: the size of the board of a difficulty
SizeOf(difficulty) ==
    IF difficulty = "medium" THEN 8 ELSE IF difficulty = "hard" THEN 10 ELSE 6

\* the GameBoard object the variables hold
gameboard == [size |-> size, atoms |-> atoms, grid |-> grid]

\* GameBoard._validate_coordinates: TRUE when it does not raise
_validate_coordinates(board, x, y) ==
    (-1 <= x /\ x <= board.size) /\ (-1 <= y /\ y <= board.size)

\* the is_edge of the older GameBoard (src/placeholder.py), which calls
\* the outer ring of cells of the board its edge.  C6 is decided against it.
is_edge_inner(board, x, y) ==
    x = 0 \/ x = board.size - 1 \/ y = 0 \/ y = board.size - 1

\* GameBoard.is_edge, for coordinates that _validate_coordinates accepts
is_edge(board, x, y) ==
    x = -1 \/ x = board.size \/ y = -1 \/ y = board.size

----------------------------------------------------------------------------
(* src/ui/gamescreen.py: the entries the screen fires rays from *)

is_valid_ray_start(board, pos) ==
    LET x == pos[1]
        y == pos[2]
    IN  (x = -1 \/ x = board.size \/ y = -1 \/ y = board.size)
        /\ ~ (\/ (x = -1 /\ y = -1)
              \/ (x = -1 /\ y = board.size)
              \/ (x = board.size /\ y = -1)
              \/ (x = board.size /\ y = board.size))

get_ray_direction(board, pos) ==
    LET x == pos[1]
        y == pos[2]
    IN  IF x = -1 THEN <<1, 0>>
        ELSE IF x = board.size THEN <<-1, 0>>
        ELSE IF y = -1 THEN <<0, 1>>
        ELSE IF y = board.size THEN <<0, -1>>
        ELSE None

\* Window: the width and height it takes without a configuration file
WindowWidth == 800
WindowHeight == 600

\* GameScreen.__init__: self.cell_size and self.board_offset
cell_size(board) ==
    (IF WindowWidth < WindowHeight THEN WindowWidth ELSE WindowHeight)
        \div (board.size + 2)

board_offset(board) ==
    << (WindowWidth - cell_size(board) * board.size) \div 2,
       (WindowHeight - cell_size(board) * board.size) \div 2 >>

\* GameScreen.get_board_position: // rounds down, as \div does
get_board_position(board, screen_pos) ==
    << (screen_pos[1] - board_offset(board)[1]) \div cell_size(board),
       (screen_pos[2] - board_offset(board)[2]) \div cell_size(board) >>

\* the positions get_board_position gives the handlers for the points of
\* the window, from its top left point to its bottom right point
ScreenPositions(board) ==
    LET first == get_board_position(board, <<0, 0>>)
        last == get_board_position(board,
                                   <<WindowWidth - 1, WindowHeight - 1>>)
    IN  (first[1] .. last[1]) \X (first[2] .. last[2])

----------------------------------------------------------------------------
(* src/game/ray.py *)

\* no Ray object yet
NoRay ==
    [start_x |-> 0, start_y |-> 0, direction |-> None, path |-> <<>>,
     entry_point |-> None, exit_point |-> None, is_detoured |-> FALSE,
     is_double_detour |-> "False", visited_positions |-> {},
     status |-> "none", turned |-> <<>>]

\* Ray.__init__ as its docstring has it: a negative coordinate raises
Ray_raises_negative(start_x, start_y, direction) ==
    (start_x < 0 \/ start_y < 0) \/ direction \notin Directions

\* Ray.__init__: TRUE when the constructor raises ValueError
Ray_raises(start_x, start_y, direction) ==
    (start_x < -1 \/ start_y < -1) \/ direction \notin Directions

\* Ray.__init__: the object constructed.  status and turned are history:
\*   status: "new" after construction, then the way trace ended: "exit"
\*     (the break of line 155), "hit" (the return of line 162), "multiple"
\*     (line 174), "swallowed" (the except of line 180), "raised_Exception"
\*     (move raised), "raised_ValueError" (is_edge raised)
\*   turned: the directions change_direction has set, in order
Ray(start_x, start_y, direction) ==
    [start_x |-> start_x, start_y |-> start_y, direction |-> direction,
     path |-> << <<start_x, start_y>> >>,
     entry_point |-> <<start_x, start_y>>,
     exit_point |-> None, is_detoured |-> FALSE,
     is_double_detour |-> "False",
     visited_positions |-> { <<start_x, start_y>> },
     status |-> "new", turned |-> <<>>]

\* a move without the test of visited_positions
move_unguarded(self) ==
    LET new == <<Last(self.path)[1] + self.direction[1],
                 Last(self.path)[2] + self.direction[2]>>
    IN  [self EXCEPT !.visited_positions = @ \cup {new},
                     !.path = Append(@, new)]

\* a move that adds the direction twice
move_leap(self) ==
    LET new == <<Last(self.path)[1] + 2 * self.direction[1],
                 Last(self.path)[2] + 2 * self.direction[2]>>
    IN  IF new \in self.visited_positions
        THEN [self EXCEPT !.status = "raised_Exception"]
        ELSE [self EXCEPT !.visited_positions = @ \cup {new},
                          !.path = Append(@, new)]

\* Ray.move: the next position is appended, or Exception is raised
move(self) ==
    LET new == <<Last(self.path)[1] + self.direction[1],
                 Last(self.path)[2] + self.direction[2]>>
    IN  IF new \in self.visited_positions
        THEN [self EXCEPT !.status = "raised_Exception"]
        ELSE [self EXCEPT !.visited_positions = @ \cup {new},
                          !.path = Append(@, new)]

\* Ray.change_direction: raises ValueError for a direction that is none of
\* the four
change_direction(self, new_direction) ==
    IF new_direction \notin Directions
    THEN [self EXCEPT !.status = "raised_ValueError"]
    ELSE [self EXCEPT !.direction = new_direction,
                      !.turned = Append(@, new_direction)]

check_hit(self, atom) ==
    is_hit(atom, Last(self.path)[1], Last(self.path)[2])

check_reflection(self, atom) ==
    is_adjacent(atom, Last(self.path)[1], Last(self.path)[2])

\* reflection_rules with the entry (1, (1, 0)) giving (1, 0), the incoming
\* direction
reflection_rules_through(corner, direction) ==
    CASE corner = 1 /\ direction = <<1, 0>>  -> <<1, 0>>
      [] corner = 1 /\ direction = <<0, 1>>  -> <<-1, 0>>
      [] corner = 2 /\ direction = <<-1, 0>> -> <<0, -1>>
      [] corner = 2 /\ direction = <<0, 1>>  -> <<1, 0>>
      [] corner = 3 /\ direction = <<1, 0>>  -> <<0, 1>>
      [] corner = 3 /\ direction = <<0, -1>> -> <<-1, 0>>
      [] corner = 4 /\ direction = <<-1, 0>> -> <<0, 1>>
      [] corner = 4 /\ direction = <<0, -1>> -> <<1, 0>>
      [] OTHER -> None

\* the dict reflection_rules of _handle_reflection, with dict.get's None
reflection_rules(corner, direction) ==
    CASE corner = 1 /\ direction = <<1, 0>>  -> <<0, -1>>
      [] corner = 1 /\ direction = <<0, 1>>  -> <<-1, 0>>
      [] corner = 2 /\ direction = <<-1, 0>> -> <<0, -1>>
      [] corner = 2 /\ direction = <<0, 1>>  -> <<1, 0>>
      [] corner = 3 /\ direction = <<1, 0>>  -> <<0, 1>>
      [] corner = 3 /\ direction = <<0, -1>> -> <<-1, 0>>
      [] corner = 4 /\ direction = <<-1, 0>> -> <<0, 1>>
      [] corner = 4 /\ direction = <<0, -1>> -> <<1, 0>>
      [] OTHER -> None

_handle_reflection(self, atom, corner) ==
    LET dx == self.direction[1]
        dy == self.direction[2]
        new_direction == reflection_rules(corner, self.direction)
    IN  IF new_direction # None
        THEN change_direction(self, new_direction)
        ELSE change_direction(self, <<-dx, -dy>>)

_handle_multiple_reflections(self, reflections) ==
    [self EXCEPT !.is_double_detour = "None", !.exit_point = PyTrue]

\* a hit loop that looks at the first atom of the list only
HitLoop_first(self, atomlist, i) ==
    IF atomlist = <<>> THEN "none"
    ELSE IF check_hit(self, atomlist[1]).type # "bool"
    THEN check_hit(self, atomlist[1]).type
    ELSE IF check_hit(self, atomlist[1]).value THEN "hit"
    ELSE "none"

\* the loop of lines 159-162: "hit", "none", or the exception is_hit raised
RECURSIVE HitLoop(_, _, _)
HitLoop(self, atomlist, i) ==
    IF i > Len(atomlist) THEN "none"
    ELSE LET r == check_hit(self, atomlist[i])
         IN  IF r.type # "bool" THEN r.type
             ELSE IF r.value THEN "hit"
             ELSE HitLoop(self, atomlist, i + 1)

\* the loop of lines 165-169.  "is_adjacent, corner = ..." raises TypeError
\* unless check_reflection returned a pair
RECURSIVE ReflectionLoop(_, _, _, _)
ReflectionLoop(self, atomlist, i, reflections) ==
    IF i > Len(atomlist)
    THEN [raised |-> "none", reflections |-> reflections]
    ELSE LET r == check_reflection(self, atomlist[i])
         IN  IF r.type = "bool"
             THEN [raised |-> "TypeError", reflections |-> reflections]
             ELSE IF r.type # "tuple"
             THEN [raised |-> r.type, reflections |-> reflections]
             ELSE ReflectionLoop(self, atomlist, i + 1,
                      IF r.value
                      THEN Append(reflections, <<atomlist[i], r.corner>>)
                      ELSE reflections)

\* lines 157-182 with the reflection loop run before the hit loop
AfterMove_deflection_first(self, board) ==
    LET hit == HitLoop(self, board.atoms, 1)
        found == ReflectionLoop(self, board.atoms, 1, <<>>)
    IN  IF found.raised # "none" THEN [self EXCEPT !.status = "swallowed"]
        ELSE IF Len(found.reflections) > 1
        THEN [_handle_multiple_reflections(self, found.reflections)
                 EXCEPT !.status = "multiple"]
        ELSE IF Len(found.reflections) = 1
        THEN _handle_reflection(self, found.reflections[1][1],
                                found.reflections[1][2])
        ELSE IF hit = "hit" THEN [self EXCEPT !.status = "hit"]
        ELSE IF hit # "none" THEN [self EXCEPT !.status = "swallowed"]
        ELSE self

\* lines 157-182 of Ray.trace, after a move to a cell that is no edge:
\* the ray when trace returns, or with status "new" when the loop goes on
AfterMove(self, board) ==
    LET hit == HitLoop(self, board.atoms, 1)
        found == ReflectionLoop(self, board.atoms, 1, <<>>)
    IN  IF hit = "hit" THEN [self EXCEPT !.status = "hit"]
        ELSE IF hit # "none" THEN [self EXCEPT !.status = "swallowed"]
        ELSE IF found.raised # "none" THEN [self EXCEPT !.status = "swallowed"]
        ELSE IF Len(found.reflections) > 1
        THEN [_handle_multiple_reflections(self, found.reflections)
                 EXCEPT !.status = "multiple"]
        ELSE IF Len(found.reflections) = 1
        THEN LET turn == _handle_reflection(self, found.reflections[1][1],
                                            found.reflections[1][2])
             IN  IF turn.status = "raised_ValueError"
                 THEN [self EXCEPT !.status = "swallowed"]
                 ELSE turn
        ELSE self

\* Ray.trace
RECURSIVE trace(_, _)
trace(self, board) ==
    LET moved == move(self)
        x == Last(moved.path)[1]
        y == Last(moved.path)[2]
    IN  IF moved.status = "raised_Exception" THEN moved
        ELSE IF ~ _validate_coordinates(board, x, y)
        THEN [moved EXCEPT !.status = "raised_ValueError"]
        ELSE IF is_edge(board, x, y)
        THEN [moved EXCEPT !.exit_point = <<x, y>>, !.status = "exit"]
        ELSE LET after == AfterMove(moved, board)
             IN  IF after.status = "new" THEN trace(after, board) ELSE after

----------------------------------------------------------------------------
(* The boards and the rays of the model *)

\* the cells of an n x n board that the model puts atoms on
Cells(n) ==
    LET top == IF MaxAtomCoord < n - 1 THEN MaxAtomCoord ELSE n - 1
    IN  (0 .. top) \X (0 .. top)

\* the lists of k atoms on distinct cells of the set cells
AtomListsOn(cells, k) ==
    { [i \in 1 .. k |-> Atom(i, f[i][1], f[i][2])] :
        f \in { g \in [1 .. k -> cells] :
                  \A i, j \in 1 .. k : i # j => g[i] # g[j] } }

\* the lists of k atoms on distinct cells of Cells(n)
AtomLists(n, k) == AtomListsOn(Cells(n), k)

Boards ==
    { [size |-> SizeOf("easy"), atoms |-> a] :
        a \in UNION { AtomLists(SizeOf("easy"), k) : k \in 0 .. MaxAtoms } }
    \cup
    { [size |-> SizeOf("medium"), atoms |-> a] :
        a \in UNION { AtomLists(SizeOf("medium"), k) : k \in 0 .. MaxAtomsMedium } }

\* the positions around and on an n x n board
Ring(n) == (-1 .. n) \X (-1 .. n)

----------------------------------------------------------------------------
(* SpecTrace: a board, a Ray constructed on one of the screen's entries    *)
(* and traced, as test_ray.py does.                                        *)

\* GameBoard(difficulty, mp=True) and place_atom for each atom: place_atom
\* leaves the grid as it is
InitBoard ==
    /\ \E b \in Boards : size = b.size /\ atoms = b.atoms
    /\ grid = {}

\* a GameLoop that has played no multiplayer round: bo5 as __init__ sets
\* it, and no players
NoMatch ==
    /\ bo5 = <<0, 0>>
    /\ player1 = None
    /\ player2 = None

NoPlayer ==
    /\ score = 0
    /\ fired_rays = <<>>
    /\ guessed_atoms = <<>>
    /\ initial_score = 0
    /\ returned = 0
    /\ last_call = [op |-> "none", result |-> "returned"]
    /\ late_commands = 0
    /\ NoMatch

InitTrace ==
    /\ InitBoard
    /\ ray = NoRay
    /\ NoPlayer
    /\ game_state = "MAIN_MENU"

\* ray = Ray(x, y, direction) on an entry of the screen
NewRay ==
    /\ ray.status = "none"
    /\ \E pos \in Ring(size) :
          /\ is_valid_ray_start(gameboard, pos)
          /\ ~ Ray_raises(pos[1], pos[2], get_ray_direction(gameboard, pos))
          /\ ray' = Ray(pos[1], pos[2], get_ray_direction(gameboard, pos))
    /\ UNCHANGED <<board_vars, player_vars, mp_vars, game_state>>

\* ray.trace(gameboard)
TraceRay ==
    /\ ray.status = "new"
    /\ ray' = trace(ray, gameboard)
    /\ UNCHANGED <<board_vars, player_vars, mp_vars, game_state>>

NextTrace == NewRay \/ TraceRay

SpecTrace == InitTrace /\ [][NextTrace]_vars

----------------------------------------------------------------------------
(* SpecReflection: a Ray on a board, and calls of its methods move,        *)
(* _handle_reflection and trace, as test_ray.py makes them                 *)

\* a GameBoard, and no Ray yet
InitReflection == InitTrace

\* ray.move()
MoveRay ==
    /\ ray.status = "new"
    /\ Len(ray.path) <= MaxMoves
    /\ ray.turned = <<>>
    /\ ray' = move(ray)
    /\ UNCHANGED <<board_vars, player_vars, mp_vars, game_state>>

\* ray._handle_reflection(atom, corner), with an Atom of the caller
HandleReflection ==
    /\ ray.status = "new"
    /\ Len(ray.turned) < MaxTurns
    /\ \E corner \in 1 .. 4 :
          ray' = _handle_reflection(ray, Atom(-1, 2, 1), corner)
    /\ UNCHANGED <<board_vars, player_vars, mp_vars, game_state>>

NextReflection == NewRay \/ MoveRay \/ HandleReflection \/ TraceRay

SpecReflection == InitReflection /\ [][NextReflection]_vars


----------------------------------------------------------------------------
(* src/game/player.py *)

\* update_score with the sign of points slipped
update_score_slip(sc, points) ==
    LET new_score == sc - points
    IN  IF new_score < 0
        THEN [raised |-> "ValueError", score |-> sc]
        ELSE [raised |-> "none", score |-> new_score]

\* Player.update_score: the new score, or ValueError and the score kept
update_score(sc, points) ==
    LET new_score == sc + points
    IN  IF new_score < 0
        THEN [raised |-> "ValueError", score |-> sc]
        ELSE [raised |-> "none", score |-> new_score]

\* fire_ray as it would be if the new ray were put in front of the history
fire_ray_prepend(board, sc, rays, x, y, direction) ==
    IF x < -1 \/ y < -1
    THEN [raised |-> "ValueError", score |-> sc, fired_rays |-> rays,
          ray |-> NoRay]
    ELSE IF direction \notin Directions
    THEN [raised |-> "ValueError", score |-> sc, fired_rays |-> rays,
          ray |-> NoRay]
    ELSE LET r == trace(Ray(x, y, direction), board)
             upd == update_score(sc, -1)
         IN  IF r.status = "raised_Exception"
             THEN [raised |-> "Exception", score |-> sc,
                   fired_rays |-> rays, ray |-> r]
             ELSE IF r.status = "raised_ValueError"
             THEN [raised |-> "ValueError", score |-> sc,
                   fired_rays |-> rays, ray |-> r]
             ELSE [raised |-> upd.raised, score |-> upd.score,
                   fired_rays |-> <<r>> \o rays, ray |-> r]

\* Player.fire_ray on a player with score sc and history rays: what is
\* raised ("none" when the ray is returned), the player's fields after the
\* call, and the Ray object of the call
fire_ray(board, sc, rays, x, y, direction) ==
    IF x < -1 \/ y < -1
    THEN [raised |-> "ValueError", score |-> sc, fired_rays |-> rays,
          ray |-> NoRay]
    ELSE IF direction \notin Directions
    THEN [raised |-> "ValueError", score |-> sc, fired_rays |-> rays,
          ray |-> NoRay]
    ELSE LET r == trace(Ray(x, y, direction), board)
             upd == update_score(sc, -1)
         IN  IF r.status = "raised_Exception"
             THEN [raised |-> "Exception", score |-> sc,
                   fired_rays |-> rays, ray |-> r]
             ELSE IF r.status = "raised_ValueError"
             THEN [raised |-> "ValueError", score |-> sc,
                   fired_rays |-> rays, ray |-> r]
             ELSE [raised |-> upd.raised, score |-> upd.score,
                   fired_rays |-> Append(rays, r), ray |-> r]

\* the player's fields, on which the methods of Player act
PlayerState ==
    [score |-> score, fired_rays |-> fired_rays,
     guessed_atoms |-> guessed_atoms, returned |-> returned,
     last_call |-> last_call, late_commands |-> late_commands]

\* Player.guess_atom: "atom in self.guessed_atoms" finds the same object
guess_atom(st, atom) ==
    IF \E i \in 1 .. Len(st.guessed_atoms) : st.guessed_atoms[i] = atom
    THEN [raised |-> "ValueError", st |-> st]
    ELSE [raised |-> "none",
          st |-> [st EXCEPT !.guessed_atoms = Append(@, atom)]]

\* list.remove: the list without the first member equal to atom
ListRemove(list, atom) ==
    LET first == CHOOSE i \in 1 .. Len(list) :
                    /\ list[i] = atom
                    /\ \A j \in 1 .. i - 1 : list[j] # atom
    IN  [k \in 1 .. Len(list) - 1 |-> IF k < first THEN list[k] ELSE list[k + 1]]

\* remove_guess as it would be if Atom objects at the same position were
\* equal: the first guess at the position of atom is removed.
remove_guess_by_position(st, atom) ==
    IF ~ \E i \in 1 .. Len(st.guessed_atoms) :
            st.guessed_atoms[i].x = atom.x /\ st.guessed_atoms[i].y = atom.y
    THEN [raised |-> "ValueError", st |-> st]
    ELSE [raised |-> "none",
          st |-> [st EXCEPT !.guessed_atoms =
                    ListRemove(@, @[CHOOSE i \in 1 .. Len(@) :
                                       /\ @[i].x = atom.x /\ @[i].y = atom.y
                                       /\ \A j \in 1 .. i - 1 :
                                             ~ (@[j].x = atom.x /\ @[j].y = atom.y)])]]

\* Player.remove_guess
remove_guess(st, atom) ==
    IF ~ \E i \in 1 .. Len(st.guessed_atoms) : st.guessed_atoms[i] = atom
    THEN [raised |-> "ValueError", st |-> st]
    ELSE [raised |-> "none",
          st |-> [st EXCEPT !.guessed_atoms = ListRemove(@, atom)]]

----------------------------------------------------------------------------
(* Spec: a Player on a board, and calls of Player.fire_ray, as             *)
(* test-player.py makes them.                                              *)

\* the boards of Spec
PlayBoards ==
    { [size |-> SizeOf("easy"), atoms |-> a] :
        a \in UNION { AtomLists(SizeOf("easy"), k) : k \in 0 .. MaxPlayAtoms } }

\* the (x, y, direction) of the calls: two entries fired inward, an entry
\* fired outward, a start on the board, a coordinate below -1, and a
\* direction that is none of the four
FireInputs ==
    { <<-1, 2, <<1, 0>>>>, <<3, -1, <<0, 1>>>>, <<-1, 2, <<-1, 0>>>>,
      <<2, 2, <<0, 1>>>>, <<-2, 2, <<1, 0>>>>, <<-1, 2, <<1, 1>>>> }

\* Player(name, gameboard, initial_score) on a board
Init ==
    /\ \E b \in PlayBoards : size = b.size /\ atoms = b.atoms
    /\ grid = {}
    /\ \E s \in 0 .. MaxInitialScore : initial_score = s /\ score = s
    /\ fired_rays = <<>>
    /\ guessed_atoms = <<>>
    /\ ray = NoRay
    /\ returned = 0
    /\ last_call = [op |-> "Player", result |-> "returned"]
    /\ late_commands = 0
    /\ NoMatch
    /\ game_state = "MAIN_MENU"

\* player.fire_ray(x, y, direction)
FireRay ==
    /\ Len(fired_rays) < MaxRays
    /\ \E in \in FireInputs :
          LET call == fire_ray(gameboard, score, fired_rays,
                               in[1], in[2], in[3])
          IN  /\ score' = call.score
              /\ fired_rays' = call.fired_rays
              /\ ray' = call.ray
              /\ returned' = IF call.raised = "none"
                             THEN returned + 1 ELSE returned
              /\ last_call' = [op |-> "fire_ray",
                               result |-> IF call.raised = "none"
                                          THEN "returned" ELSE call.raised]
    /\ UNCHANGED <<board_vars, guessed_atoms, initial_score, late_commands,
                   mp_vars, game_state>>

Next == FireRay

Spec == Init /\ [][Next]_vars

----------------------------------------------------------------------------
(* SpecGuess: a Player on a board, and calls of Player.guess_atom and      *)
(* Player.remove_guess, as test-player.py makes them.                      *)

\* the cells of the atoms of the boards of SpecGuess
GuessCells == {<<1, 1>>, <<0, 2>>}

GuessBoards ==
    { [size |-> SizeOf("easy"), atoms |-> a] :
        a \in UNION { AtomListsOn(GuessCells, k) : k \in 0 .. MaxGuessAtoms } }

\* the Atom objects the caller constructs: two at (1, 1), one at (0, 2),
\* and one at (6, 1), a position off the 6 x 6 board
NewAtoms ==
    { Atom(-1, 1, 1), Atom(-2, 1, 1), Atom(-3, 0, 2), Atom(-4, 6, 1) }

\* the Atom objects a call can pass: the caller's, and the board's own
\* (gameboard.atoms)
GuessObjects ==
    NewAtoms \cup { atoms[i] : i \in 1 .. Len(atoms) }

\* Player(name, gameboard, initial_score) on a board
InitGuess ==
    /\ \E b \in GuessBoards : size = b.size /\ atoms = b.atoms
    /\ grid = {}
    /\ \E s \in 0 .. MaxInitialScore : initial_score = s /\ score = s
    /\ fired_rays = <<>>
    /\ guessed_atoms = <<>>
    /\ ray = NoRay
    /\ returned = 0
    /\ last_call = [op |-> "Player", result |-> "returned"]
    /\ late_commands = 0
    /\ NoMatch
    /\ game_state = "MAIN_MENU"

\* a call of guess_atom or remove_guess as it would be if the guesses it
\* leaves were placed on the board as atoms
AfterGuessCall_placing(op, call) ==
    /\ guessed_atoms' = call.st.guessed_atoms
    /\ score' = call.st.score
    /\ atoms' = atoms \o call.st.guessed_atoms
    /\ last_call' = [op |-> op,
                     result |-> IF call.raised = "none"
                                THEN "returned" ELSE call.raised]
    /\ UNCHANGED <<size, grid, ray, fired_rays, initial_score, returned,
                   late_commands, mp_vars, game_state>>

\* what a call of guess_atom or remove_guess leaves: call is what it did
AfterGuessCall(op, call) ==
    /\ guessed_atoms' = call.st.guessed_atoms
    /\ score' = call.st.score
    /\ last_call' = [op |-> op,
                     result |-> IF call.raised = "none"
                                THEN "returned" ELSE call.raised]
    /\ UNCHANGED <<board_vars, ray, fired_rays, initial_score, returned,
                   late_commands, mp_vars, game_state>>

\* player.guess_atom(atom)
GuessAtom ==
    /\ Len(guessed_atoms) < MaxGuesses
    /\ \E atom \in GuessObjects :
          AfterGuessCall("guess_atom", guess_atom(PlayerState, atom))

\* player.remove_guess(atom)
RemoveGuess ==
    \E atom \in GuessObjects :
        AfterGuessCall("remove_guess", remove_guess(PlayerState, atom))

NextGuess == GuessAtom \/ RemoveGuess

SpecGuess == InitGuess /\ [][NextGuess]_vars

----------------------------------------------------------------------------
(* src/gameloop.py and src/ui/gamescreen.py: the single-player session *)

\* the cells _place_atoms draws from in the model: x and y from
\* 1 .. MaxCoord, and on the medium and hard boards, which hold 5 and 6
\* atoms, y from 1 .. MaxCoord + 1
PlaceCoords(difficulty) ==
    LET n == SizeOf(difficulty)
        top == IF MaxCoord < n - 2 THEN MaxCoord ELSE n - 2
        wide == IF difficulty = "easy" THEN top
                ELSE IF MaxCoord + 1 < n - 2 THEN MaxCoord + 1 ELSE n - 2
    IN  (1 .. top) \X (1 .. wide)

\* _place_atoms with the lower end of each range of random.randint one
\* too low
_place_atoms_few(difficulty) ==
    LET num_atoms == IF difficulty = "easy" THEN {2, 3, 4}
                     ELSE IF difficulty = "medium" THEN {3, 4, 5}
                     ELSE {4, 5, 6}
    IN  UNION { AtomListsOn(PlaceCoords(difficulty), k) : k \in num_atoms }

\* GameBoard._place_atoms: the atom lists it can leave on the board of a
\* difficulty
_place_atoms(difficulty) ==
    LET num_atoms == IF difficulty = "easy" THEN {3, 4}
                     ELSE IF difficulty = "medium" THEN {4, 5} ELSE {5, 6}
    IN  UNION { AtomListsOn(PlaceCoords(difficulty), k) : k \in num_atoms }

\* GameBoard.all_atoms_guessed: set(self.atoms) == set(guessed_atoms), the
\* sets of Atom objects
all_atoms_guessed(board, guessed) ==
    { board.atoms[i] : i \in 1 .. Len(board.atoms) }
        = { guessed[i] : i \in 1 .. Len(guessed) }

\* check_game_over as it would be with the score tested one too high: a
\* game with one point left is over
check_game_over_early(board, sc, guessed) ==
    sc <= 1 \/ all_atoms_guessed(board, guessed)

\* GameLoop.check_game_over, with a player and a board
check_game_over(board, sc, guessed) ==
    IF sc <= 0 THEN TRUE
    ELSE IF all_atoms_guessed(board, guessed) THEN TRUE
    ELSE FALSE

is_valid_guess_position(board, pos) ==
    (0 <= pos[1] /\ pos[1] < board.size) /\ (0 <= pos[2] /\ pos[2] < board.size)

\* GameBoard.get_atom: the first atom of the list at (x, y), or None
get_atom(board, x, y) ==
    IF \E i \in 1 .. Len(board.atoms) :
          board.atoms[i].x = x /\ board.atoms[i].y = y
    THEN board.atoms[CHOOSE i \in 1 .. Len(board.atoms) :
                        /\ board.atoms[i].x = x /\ board.atoms[i].y = y
                        /\ \A j \in 1 .. i - 1 :
                              ~ (board.atoms[j].x = x /\ board.atoms[j].y = y)]
    ELSE None

\* Player.guess_atom_position, which handle_right_click calls, is not in
\* src/game/player.py: the toggle of spec.md, 4.4, on the list of guesses.
\* A guess of a cell that holds an atom is that atom of the board, and a
\* guess of any other cell is an Atom object of its own.
guess_atom_position(board, guessed, pos) ==
    IF \E i \in 1 .. Len(guessed) :
          guessed[i].x = pos[1] /\ guessed[i].y = pos[2]
    THEN SelectSeq(guessed, LAMBDA g : ~ (g.x = pos[1] /\ g.y = pos[2]))
    ELSE IF get_atom(board, pos[1], pos[2]) # None
    THEN Append(guessed, get_atom(board, pos[1], pos[2]))
    ELSE Append(guessed, Atom(-(1 + pos[1] + pos[2] * board.size),
                              pos[1], pos[2]))

\* the events of pygame.event.get(): a click carries the board position
\* get_board_position gives it and the button of the screen it is on; the
\* three buttons lie left of the board
EvQuit == [type |-> "QUIT", pos |-> None, button |-> "none"]
EvEscape == [type |-> "ESCAPE", pos |-> None, button |-> "none"]
EvLeft(pos) == [type |-> "LEFT", pos |-> pos, button |-> "none"]
EvRight(pos) == [type |-> "RIGHT", pos |-> pos, button |-> "none"]
EvButton(b) == [type |-> "LEFT", pos |-> <<-3, 1>>, button |-> b]

\* the player after handle_left_click's player.fire_ray(x, y, direction),
\* call being what fire_ray did
after_fire_ray(st, call) ==
    [st EXCEPT
        !.score = call.score,
        !.fired_rays = call.fired_rays,
        !.returned = IF call.raised = "none" THEN @ + 1 ELSE @,
        !.last_call = [op |-> "fire_ray",
                       result |-> IF call.raised = "none"
                                  THEN "returned" ELSE call.raised],
        !.late_commands = IF st.score <= 0 THEN @ + 1 ELSE @]

\* handle_left_click after its test of the position: fires tells whether
\* it called fire_ray and call what fire_ray did; ValueError is caught, any
\* other exception leaves the handler
left_click(st, ev, fires, call) ==
    IF fires /\ call.raised = "Exception"
    THEN [result |-> "raised", st |-> after_fire_ray(st, call)]
    ELSE [result |-> IF ev.button = "quit" THEN "MAIN_MENU" ELSE "None",
          st |-> IF fires THEN after_fire_ray(st, call) ELSE st]

\* GameScreen.handle_left_click: its return value (None, "MAIN_MENU", or
\* "raised" for an exception it does not catch) and the player after it
handle_left_click(board, st, ev) ==
    left_click(st, ev,
               /\ is_valid_ray_start(board, ev.pos)
               /\ get_ray_direction(board, ev.pos) # None,
               fire_ray(board, st.score, st.fired_rays, ev.pos[1], ev.pos[2],
                        get_ray_direction(board, ev.pos)))

\* GameScreen.handle_right_click
handle_right_click(board, st, ev) ==
    IF is_valid_guess_position(board, ev.pos)
    THEN [st EXCEPT
            !.guessed_atoms = guess_atom_position(board, @, ev.pos),
            !.last_call = [op |-> "guess_atom_position", result |-> "returned"],
            !.late_commands = IF st.score <= 0 THEN @ + 1 ELSE @]
    ELSE st

\* GameScreen.handle_input: the action it returns ("raised" for an
\* exception) and the player after it; after_left continues the loop over
\* the events once handle_left_click has returned left
RECURSIVE handle_input(_, _, _, _)
after_left(board, left, events, i) ==
    IF left.result # "None"
    THEN [action |-> left.result, st |-> left.st]
    ELSE handle_input(board, left.st, events, i + 1)

handle_input(board, st, events, i) ==
    IF i > Len(events) THEN [action |-> "CONTINUE", st |-> st]
    ELSE IF events[i].type = "QUIT" THEN [action |-> "QUIT", st |-> st]
    ELSE IF events[i].type = "ESCAPE" THEN [action |-> "MAIN_MENU", st |-> st]
    ELSE IF events[i].type = "LEFT"
    THEN after_left(board, handle_left_click(board, st, events[i]), events, i)
    ELSE handle_input(board, handle_right_click(board, st, events[i]),
                      events, i + 1)

\* the cells the model right-clicks
GuessClicks == {<<1, 1>>, <<1, 2>>, <<2, 1>>}

\* the events of the model: window close, Escape, a click on an entry, on a
\* cell, right of the board at the height of its upper border (the screen
\* point (720, 10) on a 6 x 6 board), on the Quit button, and a right click
\* on a cell
SessionEvents ==
    {EvQuit, EvEscape, EvLeft(<<-1, 2>>), EvLeft(<<2, 2>>), EvLeft(<<7, -1>>),
     EvButton("quit")}
    \cup { EvRight(c) : c \in GuessClicks }

EventBatches ==
    UNION { [1 .. k -> SessionEvents] : k \in 0 .. MaxEvents }

\* GameLoop.__init__
InitSession ==
    /\ game_state = "MAIN_MENU"
    /\ size = 0
    /\ atoms = <<>>
    /\ grid = {}
    /\ ray = NoRay
    /\ NoPlayer

\* run: game_state = run_menu(window).  In the state MULTIPLAYER the loop
\* calls start_new_game_mp, which does not return: GameScreenMP.place_atoms
\* calls set_cell(x, y, atom), a TypeError with the set_cell the class
\* keeps, returns False on it, and start_new_game_mp calls it again
RunMenu ==
    /\ game_state = "MAIN_MENU"
    /\ game_state' \in {"START_GAME", "MULTIPLAYER", "QUIT"}
    /\ UNCHANGED <<board_vars, ray, player_vars, mp_vars>>

\* GameLoop.start_new_game
StartNewGame ==
    /\ game_state = "START_GAME"
    /\ \E difficulty \in {"easy"} :
          /\ size' = SizeOf(difficulty)
          /\ atoms' \in _place_atoms(difficulty)
          /\ grid' = { <<atoms'[i].y, atoms'[i].x>> : i \in 1 .. Len(atoms') }
    /\ score' = SessionInitialScore
    /\ initial_score' = SessionInitialScore
    /\ fired_rays' = <<>>
    /\ guessed_atoms' = <<>>
    /\ returned' = 0
    /\ last_call' = [op |-> "Player", result |-> "returned"]
    /\ late_commands' = 0
    /\ game_state' = "PLAYING"
    /\ UNCHANGED <<ray, mp_vars>>

\* GameLoop.play_game after handle_input has returned handled: the player
\* the handlers left, and the state the action and check_game_over give
EndFrame(handled) ==
    /\ score' = handled.st.score
    /\ fired_rays' = handled.st.fired_rays
    /\ guessed_atoms' = handled.st.guessed_atoms
    /\ returned' = handled.st.returned
    /\ last_call' = handled.st.last_call
    /\ late_commands' = handled.st.late_commands
    /\ game_state' =
          IF handled.action = "raised" THEN "MAIN_MENU"
          ELSE IF handled.action = "QUIT" THEN "QUIT"
          ELSE IF handled.action = "MAIN_MENU" THEN "MAIN_MENU"
          ELSE IF check_game_over(gameboard, handled.st.score,
                                  handled.st.guessed_atoms)
          THEN "GAME_OVER"
          ELSE "PLAYING"

\* GameLoop.play_game: one frame
PlayGame ==
    /\ game_state = "PLAYING"
    /\ \E events \in EventBatches :
          EndFrame(handle_input(gameboard, PlayerState, events, 1))
    /\ UNCHANGED <<board_vars, ray, initial_score, mp_vars>>

\* GameLoop.show_game_over: GameScreen has show_game_over and no
\* show_game_finished, whose call raises AttributeError
ShowGameOver ==
    /\ game_state = "GAME_OVER"
    /\ IF score <= 0
       THEN game_state' \in {"QUIT", "MAIN_MENU", "START_GAME"}
       ELSE game_state' = "MAIN_MENU"
    /\ UNCHANGED <<board_vars, ray, player_vars, mp_vars>>

NextSession == RunMenu \/ StartNewGame \/ PlayGame \/ ShowGameOver

SpecSession == InitSession /\ [][NextSession]_vars

----------------------------------------------------------------------------
(* SpecBoard: a GameBoard and calls of place_atom and set_cell on it       *)

\* GameBoard.has_atom for a position on the board: grid[y][x] is an Atom
has_atom(board, x, y) == <<y, x>> \in board.grid

\* GameBoard.place_atom: grid[atom.x][atom.y] is read, rows first; the
\* atom is appended and the grid is left as it is
place_atom(board, atom) ==
    IF atom.x >= board.size \/ atom.y >= board.size
    THEN [raised |-> "IndexError", board |-> board]
    ELSE IF <<atom.x, atom.y>> \in board.grid
    THEN [raised |-> "none", board |-> board]
    ELSE [raised |-> "none",
          board |-> [board EXCEPT !.atoms = Append(@, atom)]]

\* GameBoard.set_cell(value), the second definition of the class, which
\* is the one the class keeps: grid[value.y][value.x] = value
set_cell(board, value) ==
    IF ~ _validate_coordinates(board, value.x, value.y)
    THEN [raised |-> "ValueError", board |-> board]
    ELSE IF value.x >= board.size \/ value.y >= board.size
    THEN [raised |-> "IndexError", board |-> board]
    ELSE [raised |-> "none",
          board |-> [board EXCEPT !.grid = @ \cup {<<value.y, value.x>>}]]

\* the positions of the Atom objects the caller constructs: three on the
\* 6 x 6 board, (6, 1) on its border and (7, 1) beyond it
PlaceCells == {<<1, 1>>, <<1, 2>>, <<2, 1>>, <<6, 1>>, <<7, 1>>}

\* GameBoard("easy", mp=True), which places nothing, or GameBoard("easy"),
\* which ends with _place_atoms and its grid[y][x] = atom
InitGameBoard ==
    /\ size = SizeOf("easy")
    /\ \/ atoms = <<>>
       \/ atoms \in _place_atoms("easy")
    /\ grid = { <<atoms[i].y, atoms[i].x>> : i \in 1 .. Len(atoms) }
    /\ ray = NoRay
    /\ score = 0
    /\ fired_rays = <<>>
    /\ guessed_atoms = <<>>
    /\ initial_score = 0
    /\ returned = 0
    /\ last_call = [op |-> "GameBoard", result |-> "returned"]
    /\ late_commands = 0
    /\ NoMatch
    /\ game_state = "MAIN_MENU"

\* what a call on the board leaves: call is what it did
AfterBoardCall(op, call) ==
    /\ atoms' = call.board.atoms
    /\ grid' = call.board.grid
    /\ last_call' = [op |-> op,
                     result |-> IF call.raised = "none"
                                THEN "returned" ELSE call.raised]
    /\ UNCHANGED <<size, ray, score, fired_rays, guessed_atoms,
                   initial_score, returned, late_commands, mp_vars, game_state>>

\* board.place_atom(Atom(x, y))
PlaceAtom ==
    /\ Len(atoms) < MaxBoardAtoms
    /\ \E c \in PlaceCells :
          AfterBoardCall("place_atom",
                         place_atom(gameboard, Atom(Len(atoms) + 1, c[1], c[2])))

\* board.set_cell(Atom(x, y))
SetCell ==
    \E c \in PlaceCells :
        AfterBoardCall("set_cell", set_cell(gameboard, Atom(0, c[1], c[2])))

NextBoard == PlaceAtom \/ SetCell

SpecBoard == InitGameBoard /\ [][NextBoard]_vars

----------------------------------------------------------------------------
(* SpecPlaced: a GameBoard, calls of set_cell on it, and a ray traced on   *)
(* it, as the end of test_ray.py has them                                  *)

\* GameBoard("easy", mp=True): no atom but those set_cell places
InitPlaced ==
    /\ InitGameBoard
    /\ atoms = <<>>

NextPlaced == SetCell \/ NewRay \/ TraceRay

SpecPlaced == InitPlaced /\ [][NextPlaced]_vars

----------------------------------------------------------------------------
(* SpecTiers: GameBoard(difficulty) for each difficulty *)

\* the arguments of the constructor: the three difficulties and a string
\* that is none of them
Difficulties == {"easy", "medium", "hard", "expert"}

\* no GameBoard yet
InitTiers ==
    /\ size = 0
    /\ atoms = <<>>
    /\ grid = {}
    /\ ray = NoRay
    /\ NoPlayer
    /\ game_state = "MAIN_MENU"

\* GameBoard(difficulty), the one call of a run: ValueError for a string
\* that is no difficulty, else the size of the difficulty, an empty grid,
\* and _place_atoms
NewGameBoard ==
    /\ last_call.op = "none"
    /\ \E difficulty \in Difficulties :
          IF difficulty \notin {"easy", "medium", "hard"}
          THEN /\ last_call' = [op |-> "GameBoard", result |-> "ValueError",
                                difficulty |-> difficulty]
               /\ UNCHANGED board_vars
          ELSE /\ size' = SizeOf(difficulty)
               /\ atoms' \in _place_atoms(difficulty)
               /\ grid' = { <<atoms'[i].y, atoms'[i].x>> :
                              i \in 1 .. Len(atoms') }
               /\ last_call' = [op |-> "GameBoard", result |-> "returned",
                                difficulty |-> difficulty]
    /\ UNCHANGED <<ray, score, fired_rays, guessed_atoms, initial_score,
                   returned, late_commands, mp_vars, game_state>>

NextTiers == NewGameBoard

SpecTiers == InitTiers /\ [][NextTiers]_vars

----------------------------------------------------------------------------
(* SpecPlacement: GameBoard(difficulty) with the loop of _place_atoms      *)
(* taken one iteration at a time, over the whole range of random.randint   *)

\* random.randint(0, size - 1): every row and column of the board
RandomCoords_all(n) == 0 .. n - 1

\* random.randint(1, self.size - 2), both ends included
RandomCoords(n) == 1 .. n - 2

\* GameBoard(difficulty) up to the while loop: the size, the empty grid and
\* list, and num_atoms drawn
InitPlacement ==
    /\ \E difficulty \in {"easy", "medium", "hard"} :
          /\ size = SizeOf(difficulty)
          /\ \E num_atoms \in (IF difficulty = "easy" THEN {3, 4}
                               ELSE IF difficulty = "medium" THEN {4, 5}
                               ELSE {5, 6}) :
                last_call = [op |-> "_place_atoms", result |-> "running",
                             difficulty |-> difficulty,
                             num_atoms |-> num_atoms]
    /\ atoms = <<>>
    /\ grid = {}
    /\ ray = NoRay
    /\ score = 0
    /\ fired_rays = <<>>
    /\ guessed_atoms = <<>>
    /\ initial_score = 0
    /\ returned = 0
    /\ late_commands = 0
    /\ NoMatch
    /\ game_state = "MAIN_MENU"

\* one iteration of the while loop: x and y are drawn, and the atom is
\* appended and written to grid[y][x] if the cell is empty
PlaceIteration ==
    /\ last_call.result = "running"
    /\ Len(atoms) < last_call.num_atoms
    /\ last_call.difficulty = "easy" \/ Len(atoms) < MaxPlacedLarge
    /\ \E x, y \in RandomCoords(size) :
          IF <<y, x>> \notin grid
          THEN /\ atoms' = Append(atoms, Atom(Len(atoms) + 1, x, y))
               /\ grid' = grid \cup {<<y, x>>}
          ELSE UNCHANGED <<atoms, grid>>
    /\ UNCHANGED <<size, ray, player_vars, mp_vars, game_state>>

\* the loop ends and GameBoard(difficulty) returns
PlaceReturn ==
    /\ last_call.result = "running"
    /\ Len(atoms) >= last_call.num_atoms
    /\ last_call' = [last_call EXCEPT !.result = "returned"]
    /\ UNCHANGED <<board_vars, ray, score, fired_rays, guessed_atoms,
                   initial_score, returned, late_commands, mp_vars, game_state>>

NextPlacement == PlaceIteration \/ PlaceReturn

SpecPlacement == InitPlacement /\ [][NextPlacement]_vars

----------------------------------------------------------------------------
(* SpecMatch: the multiplayer states of GameLoop.  start_new_game_mp is    *)
(* taken as it ends when GameScreenMP.place_atoms returns True, which it   *)
(* does not with the set_cell GameBoard keeps (see RunMenu); the states    *)
(* PLAYING_MP and GAME_OVER_MP are those of a GameLoop whose boards and    *)
(* players a caller has set, and on which play_game_mp and                 *)
(* show_game_over_mp are called as run calls them                          *)

\* the boards of a round: game_board1 holds the atoms of Player 1, which
\* Player 2 guesses, and game_board2 those of Player 2
game_board1 ==
    [size |-> SizeOf("easy"),
     atoms |-> [i \in 1 .. MaxMatchAtoms |-> Atom(i, i, 1)], grid |-> {}]

game_board2 ==
    [size |-> SizeOf("easy"),
     atoms |-> [i \in 1 .. MaxMatchAtoms |-> Atom(10 + i, i, 2)], grid |-> {}]

\* Player(name, board) of start_new_game_mp, with the score the model
\* starts a player with
NewPlayer == [score |-> SessionInitialScore, guessed_atoms |-> <<>>]

\* the entries the model fires from, and the cells it guesses on a board:
\* those of its atoms and one other
MatchEntries == {<<-1, 3>>, <<2, -1>>}
MatchGuesses(board) ==
    { <<board.atoms[i].x, board.atoms[i].y>> : i \in 1 .. Len(board.atoms) }
        \cup {<<0, 0>>}

\* GameLoop.check_game_over_mp: what it returns, bo5 as it leaves it, and
\* the player whose counter it raised
check_game_over_mp(b, p1, p2) ==
    IF p1 = None THEN [over |-> TRUE, bo5 |-> b, winner |-> "none"]
    ELSE IF p1.score <= 0
    THEN [over |-> TRUE, bo5 |-> <<b[1], b[2] + 1>>, winner |-> "Player 2"]
    ELSE IF all_atoms_guessed(game_board2, p1.guessed_atoms)
    THEN [over |-> TRUE, bo5 |-> <<b[1] + 1, b[2]>>, winner |-> "Player 1"]
    ELSE IF p2.score <= 0
    THEN [over |-> TRUE, bo5 |-> <<b[1] + 1, b[2]>>, winner |-> "Player 1"]
    ELSE IF all_atoms_guessed(game_board1, p2.guessed_atoms)
    THEN [over |-> TRUE, bo5 |-> <<b[1], b[2] + 1>>, winner |-> "Player 2"]
    ELSE [over |-> FALSE, bo5 |-> b, winner |-> "none"]

InitMatch == InitSession

\* start_new_game_mp(self.bo5), taken to its last line: two new players,
\* and bo5 as it is
StartNewGameMP ==
    /\ game_state = "MULTIPLAYER"
    /\ bo5[1] + bo5[2] < MaxRounds
    /\ player1' = NewPlayer
    /\ player2' = NewPlayer
    /\ game_state' = "PLAYING_MP"
    /\ UNCHANGED <<board_vars, ray, player_vars, bo5>>

\* play_game_mp after handle_input has returned action and left the
\* players p1 and p2
EndFrameMP(action, p1, p2) ==
    /\ player1' = p1
    /\ player2' = p2
    /\ IF action = "CONTINUE"
       THEN /\ bo5' = check_game_over_mp(bo5, p1, p2).bo5
            /\ game_state' = IF check_game_over_mp(bo5, p1, p2).over
                             THEN "GAME_OVER_MP" ELSE "PLAYING_MP"
            /\ last_call' =
                  [op |-> "check_game_over_mp",
                   result |-> check_game_over_mp(bo5, p1, p2).winner]
       ELSE /\ bo5' = bo5
            /\ game_state' = IF action = "raised" THEN "MAIN_MENU" ELSE action
            /\ last_call' = [op |-> "handle_input", result |-> action]

\* the player p of a round after a left click on an entry: the action
\* handle_input returns, and the score fire_ray leaves
FireMP(p, board, pos) ==
    LET call == fire_ray(board, p.score, <<>>, pos[1], pos[2],
                         get_ray_direction(board, pos))
    IN  [action |-> IF call.raised = "Exception" THEN "raised" ELSE "CONTINUE",
         p |-> [p EXCEPT !.score = call.score]]

\* the player p after a right click on a cell of the board
GuessMP(p, board, pos) ==
    [p EXCEPT !.guessed_atoms = guess_atom_position(board, @, pos)]

\* GameLoop.play_game_mp: one frame with one event, of either player
PlayGameMP ==
    /\ game_state = "PLAYING_MP"
    /\ \/ \E action \in {"QUIT", "MAIN_MENU", "CONTINUE"} :
             EndFrameMP(action, player1, player2)
       \/ \E pos \in MatchEntries :
             \/ EndFrameMP(FireMP(player1, game_board2, pos).action,
                           FireMP(player1, game_board2, pos).p, player2)
             \/ EndFrameMP(FireMP(player2, game_board1, pos).action,
                           player1, FireMP(player2, game_board1, pos).p)
       \/ \E pos \in MatchGuesses(game_board2) :
             EndFrameMP("CONTINUE", GuessMP(player1, game_board2, pos),
                        player2)
       \/ \E pos \in MatchGuesses(game_board1) :
             EndFrameMP("CONTINUE", player1,
                        GuessMP(player2, game_board1, pos))
    /\ UNCHANGED <<board_vars, ray, score, fired_rays, guessed_atoms,
                   initial_score, returned, late_commands>>

\* GameLoop.show_game_over_mp: show_game_finished names a match winner when
\* a counter is 3, and the key pressed gives the next state
ShowGameOverMP ==
    /\ game_state = "GAME_OVER_MP"
    /\ IF bo5[1] = 3
       THEN /\ last_call' = [op |-> "show_game_finished", result |-> "Player 1"]
            /\ game_state' \in {"QUIT", "MAIN_MENU"}
       ELSE IF bo5[2] = 3
       THEN /\ last_call' = [op |-> "show_game_finished", result |-> "Player 2"]
            /\ game_state' \in {"QUIT", "MAIN_MENU"}
       ELSE /\ last_call' = [op |-> "show_game_over", result |-> "returned"]
            /\ game_state' \in {"QUIT", "MULTIPLAYER"}
    /\ UNCHANGED <<board_vars, ray, score, fired_rays, guessed_atoms,
                   initial_score, returned, late_commands, mp_vars>>

NextMatch == RunMenu \/ StartNewGameMP \/ PlayGameMP \/ ShowGameOverMP

SpecMatch == InitMatch /\ [][NextMatch]_vars

----------------------------------------------------------------------------
(* SpecPlayer: a Player on a board and calls of all its methods that act   *)
(* on the game, with GameLoop.check_game_over between them                 *)

\* the points of the calls of update_score: the cost of a ray, a larger
\* deduction, and an award
ScorePoints == {-2, -1, 1}

\* player.update_score(points)
UpdateScore ==
    /\ score < MaxScore
    /\ \E points \in ScorePoints :
          LET call == update_score(score, points)
          IN  /\ score' = call.score
              /\ last_call' = [op |-> "update_score",
                               result |-> IF call.raised = "none"
                                          THEN "returned" ELSE call.raised]
    /\ UNCHANGED <<board_vars, ray, fired_rays, guessed_atoms, initial_score,
                   returned, late_commands, mp_vars, game_state>>

\* GameLoop.check_game_over() with this player and this board
CheckGameOver ==
    /\ last_call' = [op |-> "check_game_over",
                     result |-> IF check_game_over(gameboard, score,
                                                   guessed_atoms)
                                THEN "True" ELSE "False"]
    /\ UNCHANGED <<board_vars, ray, score, fired_rays, guessed_atoms,
                   initial_score, returned, late_commands, mp_vars, game_state>>

\* the calls that add to the player's lists are made while the two lists
\* together hold fewer than MaxHistory members
NextPlayer ==
    \/ (Len(fired_rays) + Len(guessed_atoms) < MaxHistory /\ FireRay)
    \/ (Len(fired_rays) + Len(guessed_atoms) < MaxHistory /\ GuessAtom)
    \/ RemoveGuess
    \/ UpdateScore
    \/ CheckGameOver

SpecPlayer == InitGuess /\ [][NextPlayer]_vars

----------------------------------------------------------------------------
(* What a traced ray shows *)

Traced(r) == r.status \notin {"none", "new"}

\* the direction the ray was constructed with: its first step
FirstDirection(r) ==
    IF Len(r.path) >= 2
    THEN <<r.path[2][1] - r.path[1][1], r.path[2][2] - r.path[1][2]>>
    ELSE r.direction

\* the ray was fired from a non-corner boundary cell, inward
FiredInward(r, board) ==
    /\ is_valid_ray_start(board, r.entry_point)
    /\ FirstDirection(r) = get_ray_direction(board, r.entry_point)

HasAtomAt(board, pos) ==
    \E i \in 1 .. Len(board.atoms) :
        board.atoms[i].x = pos[1] /\ board.atoms[i].y = pos[2]

\* the atoms of the board diagonally adjacent to pos
DiagonalAtoms(board, pos) ==
    { i \in 1 .. Len(board.atoms) :
        /\ Abs(board.atoms[i].x - pos[1]) = 1
        /\ Abs(board.atoms[i].y - pos[2]) = 1 }

IsExit(r, board) ==
    /\ r.exit_point = Last(r.path)
    /\ is_edge(board, Last(r.path)[1], Last(r.path)[2])

IsHit(r, board) ==
    r.exit_point = None /\ HasAtomAt(board, Last(r.path))

IsDoubleDeflected(r) == r.is_double_detour # "False"

\* the k-th cell of the straight path from the entry
StraightCell(r, k) ==
    <<r.entry_point[1] + k * FirstDirection(r)[1],
      r.entry_point[2] + k * FirstDirection(r)[2]>>

\* the boundary cell opposite an entry
Opposite(board, pos) ==
    IF pos[1] = -1 THEN <<board.size, pos[2]>>
    ELSE IF pos[1] = board.size THEN <<-1, pos[2]>>
    ELSE IF pos[2] = -1 THEN <<pos[1], board.size>>
    ELSE <<pos[1], -1>>

\* the orders the atom list s can be stored in
Orders(s) ==
    { [i \in 1 .. Len(s) |-> s[p[i]]] :
        p \in { q \in [1 .. Len(s) -> 1 .. Len(s)] :
                  \A i, j \in 1 .. Len(s) : i # j => q[i] # q[j] } }

----------------------------------------------------------------------------
(* Claims on Ray.trace, under SpecTrace *)

\* C1 (as claimed): a ray fired inward from a non-corner boundary cell ends
\* its trace as Exit, Hit or double deflection, without an error, after at
\* most 2 x size moves.
C1_Termination ==
    (Traced(ray) /\ FiredInward(ray, gameboard)) =>
        /\ ray.status \in {"exit", "hit", "multiple"}
        /\ IsExit(ray, gameboard) \/ IsHit(ray, gameboard) \/ IsDoubleDeflected(ray)
        /\ Len(ray.path) - 1 <= 2 * size

\* C2: the traced ray (path, outcome, exit_point, direction) is the one the
\* trace of the same entry and direction gives on the same board with its
\* atom list stored in any other order.
C2_Determinism ==
    Traced(ray) =>
        \A o \in Orders(atoms) :
            trace(Ray(ray.start_x, ray.start_y, FirstDirection(ray)),
                  [size |-> size, atoms |-> o]) = ray

\* a ray absorbed by the atom stored second in a list of two
C2_Witness ==
    /\ Traced(ray)
    /\ Len(atoms) = 2
    /\ ray.status = "hit"
    /\ <<atoms[2].x, atoms[2].y>> = Last(ray.path)

\* C3: the trace of a ray fired inward from a non-corner boundary cell never
\* ends with move's "Infinite loop detected" exception.
C3_LoopGuardUnreachable ==
    (Traced(ray) /\ FiredInward(ray, gameboard)) =>
        ray.status # "raised_Exception"

\* a trace that stopped on a cell with a diagonally adjacent atom
C3_Witness ==
    /\ Traced(ray)
    /\ FiredInward(ray, gameboard)
    /\ ~ is_edge(gameboard, Last(ray.path)[1], Last(ray.path)[2])
    /\ DiagonalAtoms(gameboard, Last(ray.path)) # {}

\* two atoms diagonally adjacent to pos, one on each side of the line of
\* travel, and no other
Straddled(board, pos, direction) ==
    /\ Cardinality(DiagonalAtoms(board, pos)) = 2
    /\ \E i, j \in DiagonalAtoms(board, pos) :
          /\ i # j
          /\ IF direction[2] = 0
             THEN board.atoms[i].x = board.atoms[j].x
             ELSE board.atoms[i].y = board.atoms[j].y

\* C4 (as claimed): a ray that reaches an interior cell with exactly two
\* diagonally adjacent atoms straddling its path ends double-deflected, and
\* its exit position is its entry position.
C4_DoubleDeflection ==
    (/\ Traced(ray)
     /\ FiredInward(ray, gameboard)
     /\ \E i \in 2 .. Len(ray.path) :
           /\ ~ is_edge(gameboard, ray.path[i][1], ray.path[i][2])
           /\ ~ HasAtomAt(gameboard, ray.path[i])
           /\ Straddled(gameboard, ray.path[i], FirstDirection(ray)))
    => (IsDoubleDeflected(ray) /\ ray.exit_point = ray.entry_point)

\* C5 (as claimed): on the 8 x 8 board whose only atom is at (1, 1) the ray
\* entering at (-1, 2) to the right changes direction exactly once, by a
\* 90-degree turn of the reflection table.
C5_SingleDeflection ==
    (/\ size = 8
     /\ atoms = << Atom(1, 1, 1) >>
     /\ Traced(ray)
     /\ ray.entry_point = <<-1, 2>>
     /\ FirstDirection(ray) = <<1, 0>>)
    => (/\ Len(ray.turned) = 1
        /\ ray.turned[1] \in
             { reflection_rules(c, <<1, 0>>) : c \in 1 .. 4 } \ {None})

\* C6: on a board without atoms a ray fired inward from a non-corner
\* boundary cell exits at the boundary cell opposite its entry, and its
\* direction is never changed.
C6_StraightPassThrough ==
    (Traced(ray) /\ FiredInward(ray, gameboard) /\ atoms = <<>>) =>
        /\ ray.status = "exit"
        /\ ray.exit_point = Opposite(gameboard, ray.entry_point)
        /\ Last(ray.path) = ray.exit_point
        /\ ray.turned = <<>>
        /\ ray.direction = get_ray_direction(gameboard, ray.entry_point)

\* a ray that crossed the empty 8 x 8 board downwards
C6_Witness ==
    /\ Traced(ray)
    /\ atoms = <<>>
    /\ size = 8
    /\ ray.entry_point = <<3, -1>>
    /\ ray.exit_point = <<3, 8>>

\* C7 (as claimed): if the k-th cell of the straight path holds an atom and
\* no earlier cell of it holds an atom or has a diagonally adjacent atom,
\* the trace ends as Hit with that atom's cell last in the path.
C7_HitExactness ==
    (Traced(ray) /\ FiredInward(ray, gameboard)) =>
        \A k \in 1 .. size :
            (/\ HasAtomAt(gameboard, StraightCell(ray, k))
             /\ \A j \in 1 .. k - 1 :
                   /\ ~ HasAtomAt(gameboard, StraightCell(ray, j))
                   /\ DiagonalAtoms(gameboard, StraightCell(ray, j)) = {})
            => (/\ ray.status = "hit"
                /\ IsHit(ray, gameboard)
                /\ Last(ray.path) = StraightCell(ray, k))

----------------------------------------------------------------------------
(* Claims on Player.fire_ray, under Spec *)

\* C8: the score is the initial score less the number of fire_ray calls
\* that returned a ray; when the last call returned, fired_rays holds as
\* many rays as calls have returned; and while the score is at least 1,
\* firing any ray of fired_rays again (same entry, same direction) returns
\* a ray, costs 1 point and adds one ray.
C8_ScoreAccounting ==
    /\ score = initial_score - returned
    /\ (last_call = [op |-> "fire_ray", result |-> "returned"])
          => Len(fired_rays) = returned
    /\ \A i \in 1 .. Len(fired_rays) :
          score >= 1 =>
              \E again \in { fire_ray(gameboard, score, fired_rays,
                                      fired_rays[i].start_x,
                                      fired_rays[i].start_y,
                                      FirstDirection(fired_rays[i])) } :
                  /\ again.raised = "none"
                  /\ again.score = score - 1
                  /\ Len(again.fired_rays) = Len(fired_rays) + 1

\* two calls with the same entry and direction have returned
C8_Witness ==
    /\ last_call = [op |-> "fire_ray", result |-> "returned"]
    /\ returned = 2
    /\ Len(fired_rays) = 2
    /\ fired_rays[1] = fired_rays[2]
    /\ score = initial_score - 2

\* C9 (as claimed): a call of fire_ray that ends with an exception leaves
\* the score and fired_rays as they were before the call.
C9_AtomicFire ==
    [][(last_call'.op = "fire_ray" /\ last_call'.result # "returned")
          => (score' = score /\ fired_rays' = fired_rays)]_vars

\* a non-corner boundary cell of the board: exactly one coordinate is -1 or
\* size, and the other lies in 0 .. size - 1
NonCornerBoundary(board, pos) ==
    \/ (pos[1] \in {-1, board.size} /\ pos[2] \in 0 .. board.size - 1)
    \/ (pos[2] \in {-1, board.size} /\ pos[1] \in 0 .. board.size - 1)

\* C12 (as claimed): a call of fire_ray returns a ray only when its entry
\* is a non-corner boundary cell and its direction is the inward direction
\* of that entry; every other request is rejected.
C12_EntryValidation ==
    (last_call = [op |-> "fire_ray", result |-> "returned"]) =>
        /\ NonCornerBoundary(gameboard, ray.entry_point)
        /\ FirstDirection(ray) = get_ray_direction(gameboard, ray.entry_point)

\* C13 (as claimed): the cost is deducted before the ray is traced, so a
\* call of fire_ray made with a score below the cost traces no ray and
\* records none.
C13_CostBeforeSimulation ==
    [][(last_call'.op = "fire_ray" /\ score < 1)
          => (~ Traced(ray') /\ fired_rays' = fired_rays)]_vars

----------------------------------------------------------------------------
(* Claims on the session, under SpecSession *)

----------------------------------------------------------------------------
(* Claims on the guesses and on check_game_over, under SpecGuess *)

\* the positions of the atoms of a list
Positions(list) == { <<list[i].x, list[i].y>> : i \in 1 .. Len(list) }

\* C11 (as claimed): check_game_over returns true exactly when the score is
\* 0 or below, or the set of guessed positions equals the set of positions
\* of the atoms of the board.
C11_TerminationPredicate ==
    check_game_over(gameboard, score, guessed_atoms)
        = (score <= 0 \/ Positions(guessed_atoms) = Positions(atoms))

\* C15 (as claimed): no two entries of the player's guesses have the same
\* position, a guess at a position already guessed having raised ValueError
\* and left the guesses as they were.
C15_OneGuessPerCell ==
    \A i, j \in 1 .. Len(guessed_atoms) :
        (guessed_atoms[i].x = guessed_atoms[j].x
            /\ guessed_atoms[i].y = guessed_atoms[j].y) => i = j

C17_GuessValidation ==
    \A i \in 1 .. Len(guessed_atoms) :
        is_valid_guess_position(gameboard,
                                <<guessed_atoms[i].x, guessed_atoms[i].y>>)

----------------------------------------------------------------------------
(* Claims on the placement of atoms, under SpecBoard *)

\* C18 (as claimed): after any sequence of _place_atoms, place_atom and
\* set_cell, no two atoms of the board's list share a position, a
\* placement on an occupied position having been rejected with nothing
\* added.
C18_ParticleUniqueness ==
    \A i, j \in 1 .. Len(atoms) :
        (atoms[i].x = atoms[j].x /\ atoms[i].y = atoms[j].y) => i = j

----------------------------------------------------------------------------
(* Claims on the states of the session, under SpecSession *)

\* the termination predicate on the state a step leaves: the score is 0 or
\* below, or the guessed positions are the positions of the atoms
TerminationPredicate ==
    score <= 0 \/ Positions(guessed_atoms) = Positions(atoms)

\* C19: every step that enters PLAYING leaves START_GAME, and every step
\* that enters GAME_OVER leaves PLAYING and ends in a state where the
\* termination predicate holds.
C19_SessionStateMachine ==
    [][/\ (game_state' = "PLAYING" /\ game_state # "PLAYING")
              => game_state = "START_GAME"
       /\ (game_state' = "GAME_OVER" /\ game_state # "GAME_OVER")
              => (game_state = "PLAYING" /\ TerminationPredicate')]_vars

\* a game that was started, played and ended: its player fired rays until
\* no point was left
C19_Witness ==
    /\ game_state = "GAME_OVER"
    /\ score <= 0
    /\ Len(fired_rays) >= SessionInitialScore

\* C20 (as claimed): for every position a click can have, is_valid_ray_start
\* is true exactly when the position is one of the 4 x size cells one step
\* outside the interior that are not corners: false for the four corners
\* and false for every position outside [-1, size] x [-1, size].
C20_BoundaryEntryPredicate ==
    size > 0 =>
        \A pos \in ScreenPositions(gameboard) :
            is_valid_ray_start(gameboard, pos) = NonCornerBoundary(gameboard, pos)

----------------------------------------------------------------------------
(* Claims on the player, under SpecPlayer *)

C22_ReadOnlyBoard ==
    [][(last_call'.op \in {"fire_ray", "guess_atom", "remove_guess",
                           "check_game_over"})
          => (size' = size /\ atoms' = atoms /\ grid' = grid)]_vars

\* a board with an atom after a ray was fired at the atom, a guess was made
\* and check_game_over was called
C22_Witness ==
    /\ last_call.op = "check_game_over"
    /\ Len(atoms) >= 1
    /\ Len(guessed_atoms) >= 1
    /\ Len(fired_rays) >= 1
    /\ IsHit(fired_rays[1], gameboard)


\* C23: fired_rays only grows at its end: every call leaves the rays it
\* held where they were, with their path, outcome and exit position; a
\* fire_ray that returns adds exactly its ray at the end; and no call of
\* another method changes the list.
C23_RayHistory ==
    [][/\ Len(fired_rays') >= Len(fired_rays)
       /\ SubSeq(fired_rays', 1, Len(fired_rays)) = fired_rays
       /\ (last_call' = [op |-> "fire_ray", result |-> "returned"])
             => fired_rays' = Append(fired_rays, ray')
       /\ (last_call'.op # "fire_ray") => fired_rays' = fired_rays]_vars

\* two different rays were fired, and a call of another method came later
C23_Witness ==
    /\ Len(fired_rays) = 2
    /\ fired_rays[1] # fired_rays[2]
    /\ last_call.op = "update_score"


----------------------------------------------------------------------------
(* Claims on the construction of the board, under SpecTiers *)

\* C24: once GameBoard(difficulty) has returned, the board has size 6, 8
\* or 10 for easy, medium or hard, and holds 3 to 4, 4 to 5 or 5 to 6 atoms
\* for them.
C24_DifficultyTiers ==
    (last_call.op = "GameBoard" /\ last_call.result = "returned") =>
        /\ last_call.difficulty = "easy"
              => (size = 6 /\ Len(atoms) \in 3 .. 4)
        /\ last_call.difficulty = "medium"
              => (size = 8 /\ Len(atoms) \in 4 .. 5)
        /\ last_call.difficulty = "hard"
              => (size = 10 /\ Len(atoms) \in 5 .. 6)
        /\ last_call.difficulty \in {"easy", "medium", "hard"}

\* a hard board with the most atoms its tier allows
C24_Witness ==
    /\ last_call.op = "GameBoard"
    /\ last_call.result = "returned"
    /\ last_call.difficulty = "hard"
    /\ Len(atoms) = 6


----------------------------------------------------------------------------
(* Claims on atoms placed with set_cell, under SpecPlaced *)

\* a cell with an atom of the grid or of the list on one of its diagonals
DiagonalOccupied(board, pos) ==
    \E dx, dy \in {-1, 1} :
        \/ has_atom(board, pos[1] + dx, pos[2] + dy)
        \/ HasAtomAt(board, <<pos[1] + dx, pos[2] + dy>>)

\* the k-th cell of the straight path of r holds an atom of the grid, and
\* no cell of the path before it holds an atom or has one on a diagonal
FirstPlacedOnPath(board, r, k) ==
    /\ has_atom(board, StraightCell(r, k)[1], StraightCell(r, k)[2])
    /\ \A j \in 1 .. k - 1 :
          /\ ~ has_atom(board, StraightCell(r, j)[1], StraightCell(r, j)[2])
          /\ ~ HasAtomAt(board, StraightCell(r, j))
          /\ ~ DiagonalOccupied(board, StraightCell(r, j))

\* C25 (as claimed): the trace of a ray whose straight path meets an atom
\* placed with set_cell, with no atom on a diagonal before it, ends as a
\* hit at the cell of that atom.
C25_PlacedAtomIsHit ==
    [][(ray.status = "new" /\ ray'.status # "new") =>
          \A k \in 1 .. size :
              FirstPlacedOnPath(gameboard, ray, k) =>
                  /\ ray'.status = "hit"
                  /\ Last(ray'.path) = StraightCell(ray, k)
                  /\ ray'.exit_point = None]_vars


----------------------------------------------------------------------------
(* Claims on Ray._handle_reflection, under SpecReflection *)

Perpendicular(d, e) == d[1] * e[1] + d[2] * e[2] = 0 /\ e \in Directions

Reverse(d) == <<-d[1], -d[2]>>

\* the direction _handle_reflection leaves on the ray r for a corner when
\* r travels in direction d
Turned(r, corner, d) ==
    _handle_reflection([r EXCEPT !.direction = d], Atom(-1, 2, 1), corner)

\* C27: for each of the 16 pairs of a corner and an incoming direction
\* _handle_reflection sets one of the four unit directions and never the
\* incoming one; for exactly two incoming directions of each corner it is
\* perpendicular to the incoming direction, and for the two others it is
\* its reverse.
C27_DeflectionTableTotal ==
    ray.status = "new" =>
        \A corner \in 1 .. 4 :
            /\ \A d \in Directions :
                  /\ Turned(ray, corner, d).status = "new"
                  /\ Turned(ray, corner, d).direction \in Directions
                  /\ Turned(ray, corner, d).direction # d
                  /\ \/ Perpendicular(d, Turned(ray, corner, d).direction)
                     \/ Turned(ray, corner, d).direction = Reverse(d)
            /\ Cardinality({ d \in Directions :
                  Perpendicular(d, Turned(ray, corner, d).direction) }) = 2
            /\ Cardinality({ d \in Directions :
                  Turned(ray, corner, d).direction = Reverse(d) }) = 2

\* a ray that moved onto the board and was turned by 90 degrees there
C27_Witness ==
    /\ ray.status = "new"
    /\ Len(ray.path) >= 2
    /\ Len(ray.turned) = 1
    /\ Perpendicular(FirstDirection(ray), ray.direction)


----------------------------------------------------------------------------
(* Claims on the deflection of a traced ray, under SpecTrace *)

\* the step of the ray r that brought it to its i-th position
StepTo(r, i) ==
    <<r.path[i][1] - r.path[i - 1][1], r.path[i][2] - r.path[i - 1][2]>>

\* the atom i of the board lies in a forward diagonal of a ray standing on
\* pos and travelling in direction d
ForwardDiagonal(board, i, pos, d) ==
    (board.atoms[i].x - pos[1]) * d[1] + (board.atoms[i].y - pos[2]) * d[2] = 1

\* the step e leads away from the atom i of the board, seen from pos
AwayFrom(board, i, pos, e) ==
    (board.atoms[i].x - pos[1]) * e[1] + (board.atoms[i].y - pos[2]) * e[2] = -1

\* C28 (as claimed): at every interior cell of its path that holds no atom
\* and has exactly one diagonally adjacent atom, lying in a forward diagonal
\* of the direction of travel, a traced ray goes on: the cell is not the
\* last of the path, and the next step is perpendicular to the step that
\* reached the cell and leads away from the atom.
C28_DeflectionTurnsAway ==
    (Traced(ray) /\ FiredInward(ray, gameboard)) =>
        \A i \in 2 .. Len(ray.path) :
            (/\ ~ is_edge(gameboard, ray.path[i][1], ray.path[i][2])
             /\ ~ HasAtomAt(gameboard, ray.path[i])
             /\ Cardinality(DiagonalAtoms(gameboard, ray.path[i])) = 1
             /\ \A a \in DiagonalAtoms(gameboard, ray.path[i]) :
                   ForwardDiagonal(gameboard, a, ray.path[i], StepTo(ray, i)))
            => (/\ i < Len(ray.path)
                /\ Perpendicular(StepTo(ray, i), StepTo(ray, i + 1))
                /\ \A a \in DiagonalAtoms(gameboard, ray.path[i]) :
                      AwayFrom(gameboard, a, ray.path[i], StepTo(ray, i + 1)))


----------------------------------------------------------------------------
(* Claims on a reversed ray, under SpecReflection *)

\* the ray r moved onto the board and _handle_reflection then reversed it
Reversed(r) ==
    /\ Len(r.path) >= 2
    /\ Len(r.turned) = 1
    /\ r.turned[1] = Reverse(FirstDirection(r))

\* C29 (as claimed): the trace of a ray that _handle_reflection reversed
\* ends with a terminal outcome, Exit, Hit or double deflection, and without
\* an exception.
C29_FallbackReversalContinues ==
    (Traced(ray) /\ Reversed(ray)) =>
        /\ ray.status \in {"exit", "hit", "multiple"}
        /\ IsExit(ray, gameboard) \/ IsHit(ray, gameboard) \/ IsDoubleDeflected(ray)


----------------------------------------------------------------------------
(* Claims on the exit of a traced ray, under SpecReflection *)

\* pos is a cell of the ring of boundary cells around the board
BoundaryCell(board, pos) ==
    /\ pos[1] \in -1 .. board.size
    /\ pos[2] \in -1 .. board.size
    /\ pos[1] \in {-1, board.size} \/ pos[2] \in {-1, board.size}

\* pos is a cell of the board
InteriorCell(board, pos) ==
    /\ pos[1] \in 0 .. board.size - 1
    /\ pos[2] \in 0 .. board.size - 1

\* C30: a trace ends as Exit exactly when the ray has stepped onto a
\* boundary cell; exit_point is then the last position of the path, a
\* boundary cell, every position between the entry and it is an interior
\* cell, and the step onto it is the last thing that happened to the ray:
\* no turn and no double deflection, whatever atoms are diagonally adjacent
\* to the boundary cell.
C30_ExitStep ==
    Traced(ray) =>
        /\ ray.status = "exit" <=>
              \E i \in 2 .. Len(ray.path) : BoundaryCell(gameboard, ray.path[i])
        /\ ray.status = "exit" =>
              /\ ray.exit_point = Last(ray.path)
              /\ BoundaryCell(gameboard, Last(ray.path))
              /\ \A i \in 2 .. Len(ray.path) - 1 :
                    InteriorCell(gameboard, ray.path[i])
              /\ ray.direction = StepTo(ray, Len(ray.path))
              /\ ray.is_double_detour = "False"
        /\ ray.status # "exit" => ray.exit_point = None

\* a ray that crossed an interior cell and left the board on a boundary
\* cell with a diagonally adjacent atom
C30_Witness ==
    /\ ray.status = "exit"
    /\ Len(ray.path) >= 3
    /\ DiagonalAtoms(gameboard, Last(ray.path)) # {}


----------------------------------------------------------------------------
(* Claims on the steps of Ray.trace, under SpecTrace *)

\* C31: a traced ray whose path reaches a cell that holds an atom stopped
\* there as Hit, whatever atoms are diagonally adjacent to the cell: the
\* cell is the last position of the path, exit_point is None, and the
\* direction is the one the ray was fired with.
C31_HitStepPrecedence ==
    Traced(ray) =>
        \A i \in 2 .. Len(ray.path) :
            HasAtomAt(gameboard, ray.path[i]) =>
                /\ i = Len(ray.path)
                /\ ray.status = "hit"
                /\ ray.exit_point = None
                /\ ray.direction = StepTo(ray, i)
                /\ ray.turned = <<>>
                /\ ray.is_double_detour = "False"

\* a ray absorbed on a cell that has a diagonally adjacent atom
C31_Witness ==
    /\ ray.status = "hit"
    /\ HasAtomAt(gameboard, Last(ray.path))
    /\ DiagonalAtoms(gameboard, Last(ray.path)) # {}


----------------------------------------------------------------------------
(* Claims on the path of a ray, under SpecReflection *)

\* the sequence s is the beginning of the sequence t
IsPrefix(s, t) ==
    Len(s) <= Len(t) /\ \A i \in 1 .. Len(s) : t[i] = s[i]

\* the path of r starts at its entry and goes on by unit steps along one axis
PathShape(r) ==
    /\ Len(r.path) >= 1
    /\ r.path[1] = <<r.start_x, r.start_y>>
    /\ r.path[1] = r.entry_point
    /\ \A i \in 2 .. Len(r.path) : StepTo(r, i) \in Directions

\* C32: after every call on a ray (construction, move, _handle_reflection,
\* trace) its path starts with the entry position and every two consecutive
\* positions differ by one unit step along one axis; a call never removes
\* or changes a position of the path; and a call that changes the direction
\* without ending the trace leaves the path as it is.
C32_PathShape ==
    [][/\ ray'.status # "none" => PathShape(ray')
       /\ ray.status # "none" => IsPrefix(ray.path, ray'.path)
       /\ (ray.status = "new" /\ ray'.status = "new"
             /\ ray'.direction # ray.direction) => ray'.path = ray.path]_vars

\* a ray that was moved, turned, and then traced to its exit
C32_Witness ==
    /\ ray.status = "exit"
    /\ Len(ray.turned) = 1
    /\ Len(ray.path) >= 4
    /\ ray.path[2] # ray.path[1]


----------------------------------------------------------------------------
(* Claims on pairs of traces, under SpecTrace *)

\* the sequence s in reverse order
ReverseSeq(s) == [i \in 1 .. Len(s) |-> s[Len(s) + 1 - i]]

\* the trace of the ray fired inward from the boundary cell pos
TraceFrom(board, pos) ==
    trace(Ray(pos[1], pos[2], get_ray_direction(board, pos)), board)

\* C33: when a ray fired inward from a boundary entry has ended as Exit,
\* its exit is a boundary entry too, and the ray fired inward from there on
\* the same board ends as Exit at the first ray's entry, with the first
\* ray's path in reverse order as its path.
C33_RayReversibility ==
    (Traced(ray) /\ FiredInward(ray, gameboard) /\ ray.status = "exit") =>
        /\ is_valid_ray_start(gameboard, ray.exit_point)
        /\ TraceFrom(gameboard, ray.exit_point).status = "exit"
        /\ TraceFrom(gameboard, ray.exit_point).exit_point = ray.entry_point
        /\ TraceFrom(gameboard, ray.exit_point).path = ReverseSeq(ray.path)

\* a ray that left the board of size 6 at (2, 6), having entered at (2, -1)
C33_Witness ==
    /\ Traced(ray)
    /\ FiredInward(ray, gameboard)
    /\ ray.status = "exit"
    /\ ray.entry_point = <<2, -1>>
    /\ ray.exit_point = <<2, 6>>
    /\ Len(ray.path) = 8


\* C34: the path of a ray never holds the same position twice, and
\* visited_positions is the set of the positions of the path.
C34_NoRepeatedPosition ==
    ray.status # "none" =>
        /\ \A i, j \in 1 .. Len(ray.path) :
              ray.path[i] = ray.path[j] => i = j
        /\ ray.visited_positions = { ray.path[i] : i \in 1 .. Len(ray.path) }

\* a reversed ray whose trace was refused the position it came from
C34_Witness ==
    /\ ray.status = "raised_Exception"
    /\ Len(ray.path) = 3
    /\ ray.direction = Reverse(FirstDirection(ray))


----------------------------------------------------------------------------
(* Claims on the two stores of a board, under SpecBoard *)

\* C35 (as claimed): for every cell (x, y) of the board has_atom(x, y) is
\* true exactly when get_atom(x, y) returns an atom, and exactly when a ray
\* standing on (x, y) is a hit of an atom of the list.
C35_GridAtomListConsistency ==
    \A x, y \in 0 .. size - 1 :
        /\ has_atom(gameboard, x, y) <=> get_atom(gameboard, x, y) # None
        /\ has_atom(gameboard, x, y) <=>
              HitLoop(Ray(x, y, <<1, 0>>), atoms, 1) = "hit"


----------------------------------------------------------------------------
(* Claims on GameBoard._place_atoms, under SpecPlacement *)

\* C36: every atom of a single-player board lies in
\* [1, size - 2] x [1, size - 2], while the board is filled and afterwards.
C36_OffTheOuterRing ==
    \A i \in 1 .. Len(atoms) :
        /\ 1 <= atoms[i].x /\ atoms[i].x <= size - 2
        /\ 1 <= atoms[i].y /\ atoms[i].y <= size - 2

\* a finished easy board with atoms on the corners (1, 1) and (4, 4) of the
\* square the atoms are drawn from
C36_Witness ==
    /\ last_call.op = "_place_atoms"
    /\ last_call.result = "returned"
    /\ HasAtomAt(gameboard, <<1, 1>>)
    /\ HasAtomAt(gameboard, <<size - 2, size - 2>>)


----------------------------------------------------------------------------
(* Claims on the multiplayer match, under SpecMatch *)

\* C37 (as claimed): a finished round (PLAYING_MP to GAME_OVER_MP) raises
\* exactly one of the two counters of bo5 by 1; neither counter is ever
\* above 3; a round started once a counter has reached 3 belongs to a new
\* match and starts with both counters 0; and show_game_over_mp names a
\* player the match winner exactly when the round just finished raised that
\* player's counter to 3.
C37_BestOfFive ==
    [][/\ (game_state = "PLAYING_MP" /\ game_state' = "GAME_OVER_MP") =>
             \/ bo5' = <<bo5[1] + 1, bo5[2]>>
             \/ bo5' = <<bo5[1], bo5[2] + 1>>
       /\ bo5'[1] <= 3 /\ bo5'[2] <= 3
       /\ (game_state = "MULTIPLAYER" /\ game_state' = "PLAYING_MP"
             /\ (bo5[1] >= 3 \/ bo5[2] >= 3)) => bo5' = <<0, 0>>
       /\ game_state = "GAME_OVER_MP" =>
             /\ (last_call'.op = "show_game_finished"
                   /\ last_call'.result = "Player 1")
                <=> (last_call.result = "Player 1" /\ bo5[1] = 3)
             /\ (last_call'.op = "show_game_finished"
                   /\ last_call'.result = "Player 2")
                <=> (last_call.result = "Player 2" /\ bo5[2] = 3)]_vars

=============================================================================
